---- MODULE Spec2Model ----
(***************************************************************************)
(* Model of the cp211x_uart driver (src/src/lib.rs): the HidUart wrapper   *)
(* around a HID handle, its RxBuffer of leftover bytes, the chunked write, *)
(* the buffered read and the control-report codec.                         *)
(*                                                                         *)
(* The driver is single threaded: one public call runs at a time.  read    *)
(* and write talk to the transport in a loop, so they are modelled one     *)
(* loop iteration per step (pc = "read" / "write"); every other call is    *)
(* one step.  Byte arrays are sequences: the Rust index i is index i+1.    *)
(***************************************************************************)
EXTENDS Integers, Sequences, FiniteSets, TLC

\* ------------------------------------------------------------ constants
FEATURE_REPORT_LENGTH == 64
INTERRUPT_REPORT_LENGTH == 64
GETSET_UART_ENABLE == 65
PURGE_FIFOS == 67
GETSET_UART_CONFIG == 80
PURGE_TRANSMIT_MASK == 1
PURGE_RECEIVE_MASK == 2
\* Duration::from_millis(1000) of HidUart::new
DefaultTimeout == 1000

\* --------------------------------------------------------------- bounds
\* Data frames the transport delivers in one run.
MaxFrames == 2
\* The time one transport operation may take (besides no time at all).
Tick == 600

\* Time a transport operation takes, as seen by Instant::elapsed.
Ticks == {0, Tick}
\* Values given to set_read_timeout / set_write_timeout.
Timeouts == {0, DefaultTimeout}
\* Length bytes of the data frames the device delivers (valid: 0..63).
FrameLens == {0, 10, 63}
\* Lengths of the destination slices given to read.
DestLens == {0, 4, 64}
\* Lengths of the slices given to write: all of them where write is checked
\* alone, one of them beside the other operations.
WriteLens == {0, 1, 62, 63, 64, 126, 127}
SomeWriteLens == {1}
\* Values given to set_write_timeout where write is checked alone.
WriteTimeouts == {0, Tick, DefaultTimeout}

\* ---------------------------------------------------------------- state
VARIABLES
    rx_buffer,       \* HidUart.rx_buffer: [start, len, data]
    read_timeout,    \* HidUart.read_timeout
    write_timeout,   \* HidUart.write_timeout
    pc,              \* "idle", or the call whose loop is running
    op,              \* the running call, or the last one when idle
    arg,             \* its arguments other than a slice, as a record
    data,            \* the slice given to read / write
    num_bytes_read,  \* read's local
    buf,             \* the call's local report buffer
    elapsed,         \* start_time.elapsed() as last measured
    sent,            \* the data frames the running write has sent
    result,          \* the value the last call returned
    streamPos,       \* payload bytes the device has delivered so far
    nframes,         \* data frames the device has delivered so far
    fetched,         \* history: payload bytes fetched, while none was lost
    delivered,       \* history: bytes returned to callers, while none was lost
    lost,            \* history: an rx flush or a failed read dropped bytes
    callFrames,      \* history: frames fetched by the running read
    fetchFailed,     \* history: the call's transport operation failed
    afterFlush,      \* history: the call before this read was an rx flush
    flushed,         \* history: the unread bytes that rx flush dropped
    unreadAtCall     \* history: the unread bytes when this read was called

vars == <<rx_buffer, read_timeout, write_timeout, pc, op, arg,
          data, num_bytes_read, buf, elapsed, sent, result, streamPos, nframes,
          fetched, delivered, lost, callFrames, fetchFailed, afterFlush,
          flushed, unreadAtCall>>

\* -------------------------------------------------------------- helpers
Min(a, b) == IF a < b THEN a ELSE b

\* [0; n]
Zeros(n) == [i \in 1..n |-> 0]

\* s[from..to] of Rust: indices from .. to-1, zero based.
Slice(s, from, to) == [i \in 1..(to - from) |-> s[from + i]]

\* dst[from..from+len(src)].copy_from_slice(src)
CopyInto(dst, from, src) ==
    [i \in 1..Len(dst) |->
        IF i > from /\ i <= from + Len(src) THEN src[i - from] ELSE dst[i]]

\* x as u8
AsU8(x) == x % 256

\* a | b
RECURSIVE BitOr(_, _)
BitOr(a, b) ==
    IF a = 0 THEN b
    ELSE IF b = 0 THEN a
    ELSE (IF a % 2 = 1 \/ b % 2 = 1 THEN 1 ELSE 0) + 2 * BitOr(a \div 2, b \div 2)

Ok(v) == [kind |-> "Ok", val |-> v]
Err(k, m) == [kind |-> k, val |-> m]
Unit == "()"

\* ------------------------------------------------------------- RxBuffer
\* RxBuffer::new
RxBuffer_new ==
    [start |-> 0, len |-> 0, data |-> Zeros(INTERRUPT_REPORT_LENGTH)]

\* RxBuffer::read with `self.start += num_bytes_read` left out.
RxBuffer_read_NoAdvance(self, dest) ==
    IF self.len = 0
    THEN [self |-> self, dest |-> dest, n |-> 0, oob |-> FALSE]
    ELSE LET n     == Min(Len(dest), self.len)
             start == self.start
             end   == start + n
             len2  == AsU8(self.len - AsU8(n))
         IN  IF end > INTERRUPT_REPORT_LENGTH
             THEN [self |-> self, dest |-> dest, n |-> 0, oob |-> TRUE]
             ELSE [self |-> [start |-> IF len2 = 0 THEN 0 ELSE self.start,
                             len   |-> len2,
                             data  |-> self.data],
                   dest |-> CopyInto(dest, 0, Slice(self.data, start, end)),
                   n    |-> n,
                   oob  |-> FALSE]

\* RxBuffer::read with `self.len -= num_bytes_read` left out.
RxBuffer_read_KeepLen(self, dest) ==
    IF self.len = 0
    THEN [self |-> self, dest |-> dest, n |-> 0, oob |-> FALSE]
    ELSE LET n     == Min(Len(dest), self.len)
             start == self.start
             end   == start + n
         IN  IF end > INTERRUPT_REPORT_LENGTH
             THEN [self |-> self, dest |-> dest, n |-> 0, oob |-> TRUE]
             ELSE [self |-> [start |-> AsU8(self.start + AsU8(n)),
                             len   |-> self.len,
                             data  |-> self.data],
                   dest |-> CopyInto(dest, 0, Slice(self.data, start, end)),
                   n    |-> n,
                   oob  |-> FALSE]

\* RxBuffer::read(&mut self, dest) -> usize.  Gives the buffer and the slice
\* afterwards and the count returned; oob: a slice index out of range (panic).
RxBuffer_read(self, dest) ==
    IF self.len = 0
    THEN [self |-> self, dest |-> dest, n |-> 0, oob |-> FALSE]
    ELSE LET n     == Min(Len(dest), self.len)
             start == self.start
             end   == start + n
             len2  == AsU8(self.len - AsU8(n))
         IN  IF end > INTERRUPT_REPORT_LENGTH
             THEN [self |-> self, dest |-> dest, n |-> 0, oob |-> TRUE]
             ELSE [self |-> [start |-> IF len2 = 0 THEN 0
                                       ELSE AsU8(self.start + AsU8(n)),
                             len   |-> len2,
                             data  |-> self.data],
                   dest |-> CopyInto(dest, 0, Slice(self.data, start, end)),
                   n    |-> n,
                   oob  |-> FALSE]

\* RxBuffer::write(&mut self, source).  Callers pass at most 64 bytes.
RxBuffer_write(self, source) ==
    IF Len(source) = 0
    THEN self
    ELSE [start |-> 0,
          len   |-> AsU8(Len(source)),
          data  |-> CopyInto(self.data, 0, source)]

\* RxBuffer::clear
RxBuffer_clear(self) == [self EXCEPT !.start = 0, !.len = 0]

\* The unread bytes of the buffer.
Unread(self) == Slice(self.data, self.start, self.start + self.len)

\* ----------------------------------------------------------- Init, calls
Pending == [kind |-> "Pending", val |-> Unit]

\* set_uart_enable's report
EnableReport(enable) ==
    [Zeros(FEATURE_REPORT_LENGTH) EXCEPT
        ![1] = GETSET_UART_ENABLE,
        ![2] = IF enable THEN 1 ELSE 0]

\* The state after HidUart::new returned Ok: both timeouts 1000 ms, an empty
\* RxBuffer, the enable report sent.
Init ==
    /\ rx_buffer = RxBuffer_new
    /\ read_timeout = DefaultTimeout
    /\ write_timeout = DefaultTimeout
    /\ pc = "idle"
    /\ op = "new"
    /\ arg = [handle |-> Unit]
    /\ data = <<>>
    /\ num_bytes_read = 0
    /\ buf = EnableReport(TRUE)
    /\ elapsed = 0
    /\ sent = <<>>
    /\ result = Ok(Unit)
    /\ streamPos = 0
    /\ nframes = 0
    /\ fetched = <<>>
    /\ delivered = <<>>
    /\ lost = FALSE
    /\ callFrames = 0
    /\ fetchFailed = FALSE
    /\ afterFlush = FALSE
    /\ flushed = <<>>
    /\ unreadAtCall = <<>>

\* A call that runs in one step: o(a) built or fetched report b and returned r.
OneStep(o, a, b, r, failed) ==
    /\ pc = "idle"
    /\ pc' = "idle"
    /\ op' = o
    /\ arg' = a
    /\ data' = <<>>
    /\ num_bytes_read' = 0
    /\ buf' = b
    /\ elapsed' = 0
    /\ sent' = <<>>
    /\ result' = r
    /\ callFrames' = 0
    /\ fetchFailed' = failed
    /\ afterFlush' = FALSE
    /\ flushed' = IF o = "flush_fifos" /\ a.rx THEN Unread(rx_buffer) ELSE <<>>
    /\ unreadAtCall' = <<>>

\* What `handle.xxx(..)?; Ok(v)` returns when the transport call succeeded
\* (ok) or failed.
Try(ok, v) == IF ok THEN Ok(v) ELSE Err("HidError", "transport")

\* HidUart::set_read_timeout
SetReadTimeout(t) ==
    /\ OneStep("set_read_timeout", [timeout |-> t], <<>>, Ok(Unit), FALSE)
    /\ read_timeout' = t
    /\ UNCHANGED <<rx_buffer, write_timeout, streamPos, nframes, fetched,
                   delivered, lost>>

\* HidUart::set_write_timeout
SetWriteTimeout(t) ==
    /\ OneStep("set_write_timeout", [timeout |-> t], <<>>, Ok(Unit), FALSE)
    /\ write_timeout' = t
    /\ UNCHANGED <<rx_buffer, read_timeout, streamPos, nframes, fetched,
                   delivered, lost>>

\* HidUart::enable / HidUart::disable, through set_uart_enable
SetUartEnable(enable, ok) ==
    /\ OneStep(IF enable THEN "enable" ELSE "disable", [enable |-> enable],
               EnableReport(enable), Try(ok, Unit), ~ok)
    /\ UNCHANGED <<rx_buffer, read_timeout, write_timeout, streamPos, nframes,
                   fetched, delivered, lost>>

\* Status bytes the device reports for GETSET_UART_ENABLE: every u8.
EnableBytes == 0..255

\* `buf[1] == 0x01` in place of `buf[1] == 0x00`: enabled only for 0x01.
DecodeEnable_OnlyOne(report) == IF report[2] = 1 THEN TRUE ELSE FALSE

\* The decision of HidUart::is_enabled on the fetched report.
DecodeEnable(report) == IF report[2] = 0 THEN FALSE ELSE TRUE

\* HidUart::is_enabled: the device answers with status byte b, or the fetch
\* fails and the buffer keeps what the call put in it.
IsEnabled(b, ok) ==
    LET asked  == [Zeros(FEATURE_REPORT_LENGTH) EXCEPT ![1] = GETSET_UART_ENABLE]
        report == IF ok THEN [asked EXCEPT ![2] = b] ELSE asked
    IN  /\ OneStep("is_enabled", [echo |-> FALSE], report,
                   Try(ok, DecodeEnable(report)), ~ok)
        /\ UNCHANGED <<rx_buffer, read_timeout, write_timeout, streamPos,
                       nframes, fetched, delivered, lost>>

\* HidUart::is_enabled answered with the report the enable or disable before
\* it sent.
IsEnabledEcho ==
    /\ op \in {"enable", "disable"}
    /\ result.kind = "Ok"
    /\ OneStep("is_enabled", [echo |-> TRUE, enable |-> arg.enable], buf,
               Ok(DecodeEnable(buf)), FALSE)
    /\ UNCHANGED <<rx_buffer, read_timeout, write_timeout, streamPos, nframes,
                   fetched, delivered, lost>>


\* The report HidUart::flush_fifos builds.
PurgeReport(rx, tx) ==
    LET b1 == IF rx THEN BitOr(0, PURGE_RECEIVE_MASK) ELSE 0
        b2 == IF tx THEN BitOr(b1, PURGE_TRANSMIT_MASK) ELSE b1
    IN  [Zeros(FEATURE_REPORT_LENGTH) EXCEPT ![1] = PURGE_FIFOS, ![2] = b2]

\* flush_fifos without `self.rx_buffer.clear()`.
FlushRxBuffer_Keep(self, rx) == self

\* flush_fifos with `self.rx_buffer.clear()` outside `if rx`.
FlushRxBuffer_Always(self, rx) == RxBuffer_clear(self)

\* The RxBuffer after HidUart::flush_fifos(rx, _)
FlushRxBuffer(self, rx) == IF rx THEN RxBuffer_clear(self) ELSE self

\* flush_fifos with `self.rx_buffer.clear()` moved behind
\* `send_feature_report(..)?`: a failed send leaves the buffer as it was.
FlushFifos_ClearAfterSend(rx, tx, ok) ==
    /\ OneStep("flush_fifos", [rx |-> rx, tx |-> tx], PurgeReport(rx, tx),
               Try(ok, Unit), ~ok)
    /\ rx_buffer' = IF ok THEN FlushRxBuffer(rx_buffer, rx) ELSE rx_buffer
    /\ lost' = (lost \/ (rx /\ ok /\ rx_buffer.len > 0))
    /\ fetched' = IF lost' THEN <<>> ELSE fetched
    /\ delivered' = IF lost' THEN <<>> ELSE delivered
    /\ UNCHANGED <<read_timeout, write_timeout, streamPos, nframes>>

\* HidUart::flush_fifos.  The buffered bytes are dropped before the report
\* is sent; if there were any, the histories of the byte stream end here.
FlushFifos(rx, tx, ok) ==
    /\ OneStep("flush_fifos", [rx |-> rx, tx |-> tx], PurgeReport(rx, tx),
               Try(ok, Unit), ~ok)
    /\ rx_buffer' = FlushRxBuffer(rx_buffer, rx)
    /\ lost' = (lost \/ (rx /\ rx_buffer.len > 0))
    /\ fetched' = IF lost' THEN <<>> ELSE fetched
    /\ delivered' = IF lost' THEN <<>> ELSE delivered
    /\ UNCHANGED <<read_timeout, write_timeout, streamPos, nframes>>

\* ---------------------------------------------------------------- write
\* The bytes a caller writes: n bytes, all different, the first one zero.
WriteData(n) == [i \in 1..n |-> (i - 1) % 256]

\* chunks_exact in place of chunks: the short last chunk is left out.
NumChunks_Floor(d) == Len(d) \div (INTERRUPT_REPORT_LENGTH - 1)

\* data.chunks(INTERRUPT_REPORT_LENGTH - 1): the number of chunks ...
NumChunks(d) ==
    (Len(d) + (INTERRUPT_REPORT_LENGTH - 1) - 1) \div (INTERRUPT_REPORT_LENGTH - 1)

\* ... and chunk i (from 0)
Chunk(d, i) ==
    Slice(d, i * (INTERRUPT_REPORT_LENGTH - 1),
          Min((i + 1) * (INTERRUPT_REPORT_LENGTH - 1), Len(d)))

\* The report write builds for one chunk.
DataFrame(chunk) ==
    CopyInto([Zeros(INTERRUPT_REPORT_LENGTH) EXCEPT ![1] = AsU8(Len(chunk))],
             1, chunk)

\* >= in place of >.
WriteTimedOut_Ge(e, timeout) == e >= timeout

\* start_time.elapsed() > self.write_timeout
WriteTimedOut(e, timeout) == e > timeout

\* HidUart::write is called: start_time is taken, nothing is sent yet.
WriteCall(n) ==
    /\ pc = "idle"
    /\ pc' = "write"
    /\ op' = "write"
    /\ arg' = [len |-> n]
    /\ data' = WriteData(n)
    /\ num_bytes_read' = 0
    /\ buf' = <<>>
    /\ elapsed' = 0
    /\ sent' = <<>>
    /\ result' = Pending
    /\ callFrames' = 0
    /\ fetchFailed' = FALSE
    /\ afterFlush' = FALSE
    /\ flushed' = <<>>
    /\ unreadAtCall' = <<>>
    /\ UNCHANGED <<rx_buffer, read_timeout, write_timeout, streamPos, nframes,
                   fetched, delivered, lost>>

writeFrame == <<rx_buffer, read_timeout, write_timeout, op, arg, data,
                num_bytes_read, callFrames, afterFlush, flushed, unreadAtCall,
                streamPos, nframes, fetched, delivered, lost>>

\* The chunk iterator is exhausted: Ok(()).
WriteDone ==
    /\ pc = "write"
    /\ Len(sent) = NumChunks(data)
    /\ pc' = "idle"
    /\ result' = Ok(Unit)
    /\ UNCHANGED <<buf, elapsed, sent, fetchFailed>>
    /\ UNCHANGED writeFrame

\* `self.handle.write(&buf[..])` with its error dropped in place of `?`: the
\* loop goes on and sends the chunks after the failed one.
WriteSendError_Retry ==
    /\ pc = "write"
    /\ Len(sent) < NumChunks(data)
    /\ buf' = DataFrame(Chunk(data, Len(sent)))
    /\ sent' = Append(sent, Zeros(INTERRUPT_REPORT_LENGTH))
    /\ pc' = "write"
    /\ fetchFailed' = TRUE
    /\ UNCHANGED <<elapsed, result>>
    /\ UNCHANGED writeFrame

\* handle.write fails on the next chunk: the error is returned.
WriteSendError ==
    /\ pc = "write"
    /\ Len(sent) < NumChunks(data)
    /\ buf' = DataFrame(Chunk(data, Len(sent)))
    /\ pc' = "idle"
    /\ fetchFailed' = TRUE
    /\ result' = Err("HidError", "transport")
    /\ UNCHANGED <<elapsed, sent>>
    /\ UNCHANGED writeFrame

\* The next chunk is sent, which takes tick; then the deadline is checked.
WriteSend(tick) ==
    /\ pc = "write"
    /\ Len(sent) < NumChunks(data)
    /\ buf' = DataFrame(Chunk(data, Len(sent)))
    /\ sent' = Append(sent, buf')
    /\ elapsed' = elapsed + tick
    /\ IF WriteTimedOut(elapsed', write_timeout)
       THEN pc' = "idle" /\ result' = Err("WriteTimeout", "write operation is time out")
       ELSE pc' = "write" /\ result' = result
    /\ UNCHANGED fetchFailed
    /\ UNCHANGED writeFrame

\* ----------------------------------------------------------------- read
\* Byte number k (from 0) of the device's receive stream: never zero, and
\* different from its neighbours.
StreamByte(k) == (k % 255) + 1

\* The data report the device delivers with length byte len when it has
\* delivered pos payload bytes before; the bytes after the payload are the
\* zeros read put in buf.
DeviceFrame(pos, len) ==
    [i \in 1..INTERRUPT_REPORT_LENGTH |->
        IF i = 1 THEN len
        ELSE IF i <= len + 1 THEN StreamByte(pos + i - 2)
        ELSE 0]

\* The histories are kept until bytes are dropped (lost).
Track(history) == IF lost THEN <<>> ELSE history

\* >= in place of >: the deadline itself already ends the call.
ReadTimedOut_Ge(e, timeout) == e >= timeout

\* start_time.elapsed() > self.read_timeout
ReadTimedOut(e, timeout) == e > timeout

\* read without `self.rx_buffer.read(data)`: the buffered bytes stay where
\* they are and num_bytes_read starts at 0.
ReadCall_NoDrain(n) ==
    /\ pc = "idle"
    /\ pc' = "read"
    /\ op' = "read"
    /\ arg' = [len |-> n]
    /\ data' = Zeros(n)
    /\ num_bytes_read' = 0
    /\ buf' = <<>>
    /\ elapsed' = 0
    /\ sent' = <<>>
    /\ result' = Pending
    /\ callFrames' = 0
    /\ fetchFailed' = FALSE
    /\ afterFlush' = (op = "flush_fifos" /\ arg.rx)
    /\ flushed' = IF afterFlush' THEN flushed ELSE <<>>
    /\ unreadAtCall' = Unread(rx_buffer)
    /\ UNCHANGED <<rx_buffer, read_timeout, write_timeout, streamPos, nframes,
                   fetched, delivered, lost>>

\* HidUart::read is called with a destination of n bytes: the buffered
\* bytes are drained into it and start_time is taken.
ReadCall(n) ==
    LET r == RxBuffer_read(rx_buffer, Zeros(n))
    IN  /\ pc = "idle"
        /\ pc' = IF r.oob THEN "panic" ELSE "read"
        /\ op' = "read"
        /\ arg' = [len |-> n]
        /\ rx_buffer' = r.self
        /\ data' = r.dest
        /\ num_bytes_read' = r.n
        /\ buf' = <<>>
        /\ elapsed' = 0
        /\ sent' = <<>>
        /\ result' = Pending
        /\ callFrames' = 0
        /\ fetchFailed' = FALSE
        /\ afterFlush' = (op = "flush_fifos" /\ arg.rx)
        /\ flushed' = IF afterFlush' THEN flushed ELSE <<>>
        /\ unreadAtCall' = Unread(rx_buffer)
        /\ UNCHANGED <<read_timeout, write_timeout, streamPos, nframes,
                       fetched, delivered, lost>>

readFrame == <<read_timeout, write_timeout, op, arg, sent, afterFlush,
               flushed, unreadAtCall>>

\* data_free == 0: break, Ok(num_bytes_read).
ReadBreak ==
    /\ pc = "read"
    /\ Len(data) - num_bytes_read = 0
    /\ pc' = "idle"
    /\ result' = Ok(num_bytes_read)
    /\ delivered' = Track(delivered \o SubSeq(data, 1, num_bytes_read))
    /\ UNCHANGED <<rx_buffer, data, num_bytes_read, buf, elapsed, callFrames,
                   fetchFailed, streamPos, nframes, fetched, lost>>
    /\ UNCHANGED readFrame

\* handle.read_timeout fails: the error is returned, and with it the count
\* of the bytes already copied is dropped.
ReadFetchError ==
    /\ pc = "read"
    /\ Len(data) - num_bytes_read > 0
    /\ buf' = Zeros(INTERRUPT_REPORT_LENGTH)
    /\ pc' = "idle"
    /\ fetchFailed' = TRUE
    /\ result' = Err("HidError", "transport")
    /\ lost' = (lost \/ num_bytes_read > 0)
    /\ fetched' = IF lost' THEN <<>> ELSE fetched
    /\ delivered' = IF lost' THEN <<>> ELSE delivered
    /\ UNCHANGED <<rx_buffer, data, num_bytes_read, elapsed, callFrames,
                   streamPos, nframes>>
    /\ UNCHANGED readFrame

\* `continue` when total_read == 0: the deadline is not looked at.
ReadFetchNothing_Continue(tick) ==
    /\ pc = "read"
    /\ Len(data) - num_bytes_read > 0
    /\ buf' = Zeros(INTERRUPT_REPORT_LENGTH)
    /\ UNCHANGED <<rx_buffer, data, num_bytes_read, callFrames, fetchFailed,
                   streamPos, nframes, fetched, lost, pc, elapsed, result,
                   delivered>>
    /\ UNCHANGED readFrame

\* Nothing arrives within the attempt (total_read == 0), which takes tick;
\* then the deadline is checked.
ReadFetchNothing(tick) ==
    /\ pc = "read"
    /\ Len(data) - num_bytes_read > 0
    /\ buf' = Zeros(INTERRUPT_REPORT_LENGTH)
    /\ elapsed' = elapsed + tick
    /\ IF ReadTimedOut(elapsed', read_timeout)
       THEN /\ pc' = "idle"
            /\ result' = Ok(num_bytes_read)
            /\ delivered' = Track(delivered \o SubSeq(data, 1, num_bytes_read))
       ELSE /\ pc' = "read"
            /\ UNCHANGED <<result, delivered>>
    /\ UNCHANGED <<rx_buffer, data, num_bytes_read, callFrames, fetchFailed,
                   streamPos, nframes, fetched, lost>>
    /\ UNCHANGED readFrame

\* read with the leftover taken from buf[copy_len..] (start = copy_len).
TakeFrame_OffByOne(b, d, n, self) ==
    LET data_free  == Len(d) - n
        report_len == b[1]
        copy_len   == Min(report_len, data_free)
        left       == report_len - copy_len
        start      == copy_len
        end        == start + left
        carry      == copy_len < report_len
    IN  [data  |-> CopyInto(d, n, Slice(b, 1, copy_len + 1)),
         n     |-> n + copy_len,
         self  |-> IF carry THEN RxBuffer_write(self, Slice(b, start, end))
                   ELSE self,
         carry |-> carry,
         oob   |-> FALSE]

\* read without `num_bytes_read += copy_len`.
TakeFrame_NoCount(b, d, n, self) ==
    LET data_free  == Len(d) - n
        report_len == b[1]
        copy_len   == Min(report_len, data_free)
        left       == report_len - copy_len
        start      == 1 + copy_len
        end        == start + left
        carry      == copy_len < report_len
    IN  [data  |-> CopyInto(d, n, Slice(b, 1, copy_len + 1)),
         n     |-> n,
         self  |-> IF carry THEN RxBuffer_write(self, Slice(b, start, end))
                   ELSE self,
         carry |-> carry,
         oob   |-> FALSE]

\* read with `copy_len = min(report_len, data_free - 1)`: the last free byte
\* of the destination is never filled from a frame.
TakeFrame_ShortCopy(b, d, n, self) ==
    LET data_free  == Len(d) - n
        report_len == b[1]
        copy_len   == Min(report_len, data_free - 1)
        left       == report_len - copy_len
        start      == 1 + copy_len
        end        == start + left
        carry      == copy_len < report_len
    IN  [data  |-> CopyInto(d, n, Slice(b, 1, copy_len + 1)),
         n     |-> n + copy_len,
         self  |-> IF carry THEN RxBuffer_write(self, Slice(b, start, end))
                   ELSE self,
         carry |-> carry,
         oob   |-> FALSE]

\* read with `copy_len = report_len`, without the min with data_free.
TakeFrame_NoMin(b, d, n, self) ==
    LET report_len == b[1]
        copy_len   == report_len
    IN  IF n + copy_len > Len(d) \/ copy_len + 1 > INTERRUPT_REPORT_LENGTH
        THEN [data |-> d, n |-> n, self |-> self, carry |-> FALSE, oob |-> TRUE]
        ELSE [data  |-> CopyInto(d, n, Slice(b, 1, copy_len + 1)),
              n     |-> n + copy_len,
              self  |-> self,
              carry |-> FALSE,
              oob   |-> FALSE]

\* What read does with a fetched report b when free bytes of the destination
\* d are left after n: the bytes copied, the leftover given to the RxBuffer.
\* oob: a slice index out of range (panic), of d, of b or of the RxBuffer.
TakeFrame(b, d, n, self) ==
    LET data_free  == Len(d) - n
        report_len == b[1]
        copy_len   == Min(report_len, data_free)
        left       == report_len - copy_len
        start      == 1 + copy_len
        end        == start + left
        carry      == copy_len < report_len
    IN  IF n + copy_len > Len(d)
           \/ copy_len + 1 > INTERRUPT_REPORT_LENGTH
           \/ (carry /\ end > INTERRUPT_REPORT_LENGTH)
           \/ (carry /\ left > INTERRUPT_REPORT_LENGTH)
        THEN [data |-> d, n |-> n, self |-> self, carry |-> FALSE, oob |-> TRUE]
        ELSE [data  |-> CopyInto(d, n, Slice(b, 1, copy_len + 1)),
              n     |-> n + copy_len,
              self  |-> IF carry THEN RxBuffer_write(self, Slice(b, start, end))
                        ELSE self,
              carry |-> carry,
              oob   |-> FALSE]

\* A report with length byte len arrives, which takes tick.  Its payload is
\* copied; if some of it is left over it is buffered and read returns, else
\* the deadline is checked.
ReadFetchFrame(len, tick) ==
    LET b == DeviceFrame(streamPos, len)
        t == TakeFrame(b, data, num_bytes_read, rx_buffer)
        done == t.carry \/ ReadTimedOut(elapsed + tick, read_timeout)
    IN  /\ pc = "read"
        /\ Len(data) - num_bytes_read > 0
        /\ nframes < MaxFrames
        /\ buf' = b
        /\ nframes' = nframes + 1
        /\ callFrames' = callFrames + 1
        /\ streamPos' = streamPos + len
        /\ fetched' = Track(fetched \o Slice(b, 1, len + 1))
        /\ data' = t.data
        /\ num_bytes_read' = t.n
        /\ rx_buffer' = t.self
        /\ elapsed' = IF t.carry \/ t.oob THEN elapsed ELSE elapsed + tick
        /\ IF t.oob
           THEN pc' = "panic" /\ UNCHANGED <<result, delivered>>
           ELSE IF done
           THEN /\ pc' = "idle"
                /\ result' = Ok(t.n)
                /\ delivered' = Track(delivered \o SubSeq(t.data, 1, t.n))
           ELSE /\ pc' = "read"
                /\ UNCHANGED <<result, delivered>>
        /\ UNCHANGED <<fetchFailed, lost>>
        /\ UNCHANGED readFrame

\* ---------------------------------------------------------- UART config
DataBitsT == {"Bits5", "Bits6", "Bits7", "Bits8"}
ParityT == {"None", "Odd", "Even", "Mark", "Space"}
StopBitsT == {"Short", "Long"}
FlowControlT == {"None", "RtsCts"}

\* A u32 is held as its two 16-bit halves, value = hi * 65536 + lo.
U32(hi, lo) == [hi |-> hi, lo |-> lo]

\* baud_rate values tried: 0, 9600 (the default), 115200, 0x01020304,
\* 0xFF00FF00 and u32::MAX.
BaudRates ==
    {U32(0, 0), U32(0, 9600), U32(1, 49664), U32(258, 772),
     U32(65280, 65280), U32(65535, 65535)}

UartConfig(b, d, p, s, f) ==
    [baud_rate |-> b, data_bits |-> d, parity |-> p, stop_bits |-> s,
     flow_control |-> f]

\* Every UartConfig over BaudRates.
AllConfigs ==
    {UartConfig(b, d, p, s, f) :
        b \in BaudRates, d \in DataBitsT, p \in ParityT, s \in StopBitsT,
        f \in FlowControlT}

\* The configuration tried beside the other operations: it differs from
\* UartConfig::default() in every field.
SomeConfigs == {UartConfig(U32(258, 772), "Bits5", "Space", "Long", "RtsCts")}

\* ((x >> sh) & 0xFF) as u8, for sh in {0, 8, 16, 24}
ShrByte(x, sh) ==
    IF sh >= 16 THEN (x.hi \div (2 ^ (sh - 16))) % 256
    ELSE (x.lo \div (2 ^ sh)) % 256

\* u32::from(b) << sh, for a byte b and sh in {0, 8, 16, 24}
ShlByte(b, sh) ==
    IF sh >= 16 THEN U32((b * (2 ^ (sh - 16))) % 65536, 0)
    ELSE U32((b * (2 ^ sh)) \div 65536, (b * (2 ^ sh)) % 65536)

\* x | y on u32
OrU32(x, y) == U32(BitOr(x.hi, y.hi), BitOr(x.lo, y.lo))

ParityCode(p) ==
    CASE p = "None" -> 0 [] p = "Odd" -> 1 [] p = "Even" -> 2
      [] p = "Mark" -> 3 [] p = "Space" -> 4

FlowControlCode(f) == CASE f = "None" -> 0 [] f = "RtsCts" -> 1

DataBitsCode(d) ==
    CASE d = "Bits5" -> 0 [] d = "Bits6" -> 1 [] d = "Bits7" -> 2
      [] d = "Bits8" -> 3

StopBitsCode(s) == CASE s = "Short" -> 0 [] s = "Long" -> 1

\* The report HidUart::set_config builds.
ConfigReport(config) ==
    [i \in 1..FEATURE_REPORT_LENGTH |->
        CASE i = 1 -> GETSET_UART_CONFIG
          [] i = 2 -> ShrByte(config.baud_rate, 24)
          [] i = 3 -> ShrByte(config.baud_rate, 16)
          [] i = 4 -> ShrByte(config.baud_rate, 8)
          [] i = 5 -> ShrByte(config.baud_rate, 0)
          [] i = 6 -> ParityCode(config.parity)
          [] i = 7 -> FlowControlCode(config.flow_control)
          [] i = 8 -> DataBitsCode(config.data_bits)
          [] i = 9 -> StopBitsCode(config.stop_bits)
          [] OTHER -> 0]

\* get_config with buf[1] shifted by 16 as buf[2] is.
DecodeBaudRate_Shift(report) ==
    OrU32(OrU32(OrU32(ShlByte(report[2], 16), ShlByte(report[3], 16)),
                ShlByte(report[4], 8)),
          ShlByte(report[5], 0))

\* The matches of HidUart::get_config; an unknown code is Err(&str), which `?`
\* turns into the crate's Error of kind Msg.
DecodeBaudRate(report) ==
    OrU32(OrU32(OrU32(ShlByte(report[2], 24), ShlByte(report[3], 16)),
                ShlByte(report[4], 8)),
          ShlByte(report[5], 0))

DecodeParity(b) ==
    CASE b = 0 -> Ok("None") [] b = 1 -> Ok("Odd") [] b = 2 -> Ok("Even")
      [] b = 3 -> Ok("Mark") [] b = 4 -> Ok("Space")
      [] OTHER -> Err("Msg", "Unknown parity mode")

DecodeFlowControl(b) ==
    CASE b = 0 -> Ok("None") [] b = 1 -> Ok("RtsCts")
      [] OTHER -> Err("Msg", "Unknown flow control mode")

DecodeDataBits(b) ==
    CASE b = 0 -> Ok("Bits5") [] b = 1 -> Ok("Bits6") [] b = 2 -> Ok("Bits7")
      [] b = 3 -> Ok("Bits8")
      [] OTHER -> Err("Msg", "Unknown data bits mode")

\* get_config with `_ => Ok(StopBits::Long)`.
DecodeStopBits_Lenient(b) ==
    CASE b = 0 -> Ok("Short") [] OTHER -> Ok("Long")

DecodeStopBits(b) ==
    CASE b = 0 -> Ok("Short") [] b = 1 -> Ok("Long")
      [] OTHER -> Err("Msg", "Unknown stop bits mode")

\* What HidUart::get_config returns for a fetched report.
DecodeConfig(report) ==
    LET parity       == DecodeParity(report[6])
        flow_control == DecodeFlowControl(report[7])
        data_bits    == DecodeDataBits(report[8])
        stop_bits    == DecodeStopBits(report[9])
    IN  IF parity.kind # "Ok" THEN parity
        ELSE IF flow_control.kind # "Ok" THEN flow_control
        ELSE IF data_bits.kind # "Ok" THEN data_bits
        ELSE IF stop_bits.kind # "Ok" THEN stop_bits
        ELSE Ok(UartConfig(DecodeBaudRate(report), data_bits.val, parity.val,
                           stop_bits.val, flow_control.val))

\* HidUart::set_config
SetConfig(config, ok) ==
    /\ OneStep("set_config", config, ConfigReport(config), Try(ok, Unit), ~ok)
    /\ UNCHANGED <<rx_buffer, read_timeout, write_timeout, streamPos, nframes,
                   fetched, delivered, lost>>

\* Code bytes a device may report: the known codes and some unknown ones.
CodeBytes == {0, 1, 2, 3, 4, 5, 255}

\* Reports a device may answer GETSET_UART_CONFIG with.
DeviceConfigReports ==
    {[i \in 1..FEATURE_REPORT_LENGTH |->
        CASE i = 1 -> GETSET_UART_CONFIG
          [] i = 2 -> hi
          [] i = 5 -> 128
          [] i = 6 -> p
          [] i = 7 -> f
          [] i = 8 -> d
          [] i = 9 -> s
          [] OTHER -> 0] :
        hi \in {0, 255}, p \in CodeBytes, f \in CodeBytes, d \in CodeBytes,
        s \in CodeBytes}

\* HidUart::get_config, the device answering with report.
GetConfigOf(report) ==
    /\ OneStep("get_config", [echo |-> FALSE], report, DecodeConfig(report),
               FALSE)
    /\ UNCHANGED <<rx_buffer, read_timeout, write_timeout, streamPos, nframes,
                   fetched, delivered, lost>>

\* HidUart::get_config, the fetch failing: the buffer keeps what was put in.
GetConfigError ==
    /\ OneStep("get_config", [echo |-> FALSE],
               [Zeros(FEATURE_REPORT_LENGTH) EXCEPT ![1] = GETSET_UART_CONFIG],
               Err("HidError", "transport"), TRUE)
    /\ UNCHANGED <<rx_buffer, read_timeout, write_timeout, streamPos, nframes,
                   fetched, delivered, lost>>

\* get_config right after a successful set_config: the device answers with
\* the report it was sent.  arg keeps the configuration that was set.
GetConfigEcho ==
    /\ op = "set_config"
    /\ result.kind = "Ok"
    /\ OneStep("get_config", [echo |-> TRUE, config |-> arg], buf,
               DecodeConfig(buf), FALSE)
    /\ UNCHANGED <<rx_buffer, read_timeout, write_timeout, streamPos, nframes,
                   fetched, delivered, lost>>

\* --------------------------------------------------------- specifications
\* The driver with every public operation.  The inputs of read, flush_fifos
\* and set_read_timeout are the full sets; write, the configuration and
\* set_write_timeout get one input each here and the full sets in SpecWrite
\* and SpecCodec.
Next ==
    \/ \E t \in Timeouts : SetReadTimeout(t)
    \/ \E t \in {DefaultTimeout} : SetWriteTimeout(t)
    \/ \E e \in BOOLEAN, ok \in BOOLEAN : SetUartEnable(e, ok)
    \/ \E b \in {0, 2}, ok \in BOOLEAN : IsEnabled(b, ok)
    \/ \E rx \in BOOLEAN, tx \in BOOLEAN, ok \in BOOLEAN : FlushFifos(rx, tx, ok)
    \/ \E c \in SomeConfigs, ok \in BOOLEAN : SetConfig(c, ok)
    \/ \E c \in SomeConfigs : GetConfigOf(ConfigReport(c))
    \/ GetConfigEcho
    \/ GetConfigError
    \/ \E n \in SomeWriteLens : WriteCall(n)
    \/ WriteDone
    \/ WriteSendError
    \/ \E tick \in Ticks : WriteSend(tick)
    \/ \E n \in DestLens : ReadCall(n)
    \/ ReadBreak
    \/ ReadFetchError
    \/ \E tick \in Ticks : ReadFetchNothing(tick)
    \/ \E len \in FrameLens, tick \in Ticks : ReadFetchFrame(len, tick)

Spec == Init /\ [][Next]_vars

\* The configuration and enable codecs alone, over every configuration, over
\* reports with unknown codes and over every status byte.  The codecs keep no
\* state from one call to the next, so a behaviour is one exchange on a new
\* HidUart: a get_config, or a set_config and the get_config that reads it
\* back; an is_enabled, or an enable or disable and the is_enabled that
\* reads it back.
FirstSetConfig == op = "new" /\ \E c \in AllConfigs, ok \in BOOLEAN : SetConfig(c, ok)
FirstGetConfig == op = "new" /\ \E r \in DeviceConfigReports : GetConfigOf(r)
FirstGetConfigError == op = "new" /\ GetConfigError

FirstSetUartEnable ==
    op = "new" /\ \E e \in BOOLEAN, ok \in BOOLEAN : SetUartEnable(e, ok)
FirstIsEnabled ==
    op = "new" /\ \E b \in EnableBytes, ok \in BOOLEAN : IsEnabled(b, ok)

NextCodec ==
    \/ FirstSetConfig
    \/ FirstGetConfig
    \/ FirstGetConfigError
    \/ GetConfigEcho
    \/ FirstSetUartEnable
    \/ FirstIsEnabled
    \/ IsEnabledEcho

SpecCodec == Init /\ [][NextCodec]_vars

\* write alone, over every length and both timeouts.
NextWrite ==
    \/ \E t \in WriteTimeouts : SetWriteTimeout(t)
    \/ \E n \in WriteLens : WriteCall(n)
    \/ WriteDone
    \/ WriteSendError
    \/ \E tick \in Ticks : WriteSend(tick)

SpecWrite == Init /\ [][NextWrite]_vars

\* One data call on a new HidUart, step by step: a write of any length or a
\* read into any destination, with every outcome of every transport call.
FirstWrite == op = "new" /\ \E n \in WriteLens : WriteCall(n)
FirstRead == op = "new" /\ \E n \in DestLens : ReadCall(n)

NextCall ==
    \/ FirstWrite
    \/ WriteDone
    \/ WriteSendError
    \/ \E tick \in Ticks : WriteSend(tick)
    \/ FirstRead
    \/ ReadBreak
    \/ ReadFetchError
    \/ \E tick \in Ticks : ReadFetchNothing(tick)
    \/ \E len \in FrameLens, tick \in Ticks : ReadFetchFrame(len, tick)

SpecCall == Init /\ [][NextCall]_vars

\* read alone, call after call, over every destination and both timeouts.
NextRead ==
    \/ \E t \in Timeouts : SetReadTimeout(t)
    \/ \E n \in DestLens : ReadCall(n)
    \/ ReadBreak
    \/ ReadFetchError
    \/ \E tick \in Ticks : ReadFetchNothing(tick)
    \/ \E len \in FrameLens, tick \in Ticks : ReadFetchFrame(len, tick)

\* A step of read's loop during which the clock advances.
ReadClockStep ==
    \E tick \in Ticks \ {0} :
        \/ ReadFetchNothing(tick)
        \/ \E len \in FrameLens : ReadFetchFrame(len, tick)

\* read's loop is plain sequential code: `break` is taken when it is reached,
\* every handle.read_timeout(.., 1) returns, and the clock
\* (Instant::now / elapsed) advances while the loop runs.
ReadFairness == WF_vars(ReadBreak) /\ WF_vars(ReadClockStep)

SpecRead == Init /\ [][NextRead]_vars

\* The slices of read, over every destination size up to one more than a
\* report and every length byte of a data report: a read on a new HidUart
\* that takes one frame, and the read after it that drains what was left.
SliceDestLens == 0..(INTERRUPT_REPORT_LENGTH + 1)
SliceFrameLens == 0..(INTERRUPT_REPORT_LENGTH - 1)
DrainLens == {1, INTERRUPT_REPORT_LENGTH - 2, INTERRUPT_REPORT_LENGTH}

FirstReadAny == op = "new" /\ \E n \in SliceDestLens : ReadCall(n)
FirstFrameAny == nframes = 0 /\ \E len \in SliceFrameLens : ReadFetchFrame(len, 0)
DrainRead == callFrames = 1 /\ \E n \in DrainLens : ReadCall(n)

NextSlices ==
    \/ FirstReadAny
    \/ FirstFrameAny
    \/ DrainRead
    \/ ReadBreak
    \/ ReadFetchError
    \/ \E tick \in Ticks : ReadFetchNothing(tick)

SpecSlices == Init /\ [][NextSlices]_vars

SpecReadLive == SpecRead /\ ReadFairness

\* ================================================================ claims
\* The bytes of the running read's destination that are already copied.
Copied == IF pc = "read" THEN SubSeq(data, 1, num_bytes_read) ELSE <<>>

\* A read call has returned.
ReadReturned == pc = "idle" /\ op = "read"

\* A write call has returned.
WriteReturned == pc = "idle" /\ op = "write"

\* C1: as long as no flush_fifos(rx = true) has dropped buffered bytes and no
\* read has failed after copying bytes, the bytes delivered to the callers,
\* then the bytes the running read has copied, then the unread bytes of the
\* leftover buffer are the payloads of the frames fetched, in arrival order.
C1_ReadIntegrity ==
    (pc \in {"idle", "read"} /\ ~lost) =>
        delivered \o Copied \o Unread(rx_buffer) = fetched

\* C1 witness: two frames were fetched, a read returned after draining part
\* of a leftover, and unread bytes are still buffered.
C1_Witness ==
    /\ ReadReturned
    /\ ~lost
    /\ nframes = 2
    /\ callFrames = 0
    /\ result.kind = "Ok"
    /\ result.val > 0
    /\ rx_buffer.start > 0
    /\ rx_buffer.len > 0
    /\ Len(delivered) > result.val

\* The payload of the frame fetched by a step: the len stream bytes from pos.
Payload(pos, len) == [i \in 1..len |-> StreamByte(pos + i - 1)]

\* C2: a step of read that fetches a frame whose payload length L exceeds the
\* free capacity c > 0 of the destination copies the first c payload bytes
\* behind the bytes already there, leaves the other L - c in the leftover
\* buffer (start 0, length L - c), and returns the destination's length; the
\* call is over, so it fetches nothing more.
C2_CarryOver ==
    [][LET L == streamPos' - streamPos
           c == Len(data) - num_bytes_read
       IN  (pc = "read" /\ nframes' = nframes + 1 /\ c > 0 /\ L > c) =>
               /\ pc' = "idle"
               /\ result' = Ok(Len(data))
               /\ Len(data') = Len(data)
               /\ SubSeq(data', 1, num_bytes_read) = SubSeq(data, 1, num_bytes_read)
               /\ SubSeq(data', num_bytes_read + 1, Len(data))
                     = SubSeq(Payload(streamPos, L), 1, c)
               /\ rx_buffer'.start = 0
               /\ rx_buffer'.len = L - c
               /\ Unread(rx_buffer') = SubSeq(Payload(streamPos, L), c + 1, L)
               /\ callFrames' = callFrames + 1
      ]_vars

\* C2 witness: a read into 4 bytes fetched one frame of 10 and returned 4 with
\* the other 6 buffered.
C2_Witness ==
    /\ ReadReturned
    /\ Len(data) = 4
    /\ callFrames = 1
    /\ result = Ok(4)
    /\ rx_buffer.start = 0
    /\ rx_buffer.len = 6

\* C3: the leftover buffer never reaches past its 64 bytes.
C3_LeftoverBounds == rx_buffer.start + rx_buffer.len <= 64

\* C3 witness: a leftover of 62 bytes, the most there can be, partly drained.
C3_Witness ==
    /\ rx_buffer.start > 0
    /\ rx_buffer.len > 0
    /\ rx_buffer.start + rx_buffer.len = 62

\* C4: a write that returned Ok sent ceil(n/63) frames; all but the last carry
\* 63 bytes and the last the rest; byte j of the data is byte ((j-1) mod 63)+1
\* of frame (j-1) div 63, and every byte behind a frame's payload is zero.
C4_WriteChunking ==
    (WriteReturned /\ result.kind = "Ok") =>
        LET n == Len(data)
            k == n \div 63
            r == n % 63
        IN  /\ Len(sent) = IF r > 0 THEN k + 1 ELSE k
            /\ \A f \in 1..Len(sent) :
                  /\ Len(sent[f]) = 64
                  /\ sent[f][1] = IF f <= k THEN 63 ELSE r
                  /\ \A i \in 2..64 : i > sent[f][1] + 1 => sent[f][i] = 0
            /\ \A j \in 1..n :
                  sent[((j - 1) \div 63) + 1][((j - 1) % 63) + 2] = data[j]

\* C4 witness: 127 = 2 * 63 + 1 bytes went out in three frames.
C4_Witness ==
    /\ WriteReturned
    /\ result.kind = "Ok"
    /\ Len(data) = 127
    /\ Len(sent) = 3

\* C5: a write that returned WriteTimeout has left at least one chunk unsent.
C5_TimeoutMeansUnsent ==
    (WriteReturned /\ result.kind = "WriteTimeout") =>
        Len(sent) * 63 < Len(data)

\* C6: the frames sent are always the first chunks of the data in order; while
\* the call runs no check has found the deadline passed; and a write returns
\* WriteTimeout exactly when a check, made after at least one chunk was sent,
\* found more time gone since the call began than write_timeout.
C6_WriteDeadline ==
    op = "write" =>
        /\ Len(sent) * 63 < Len(data) + 63
        /\ \A f \in 1..Len(sent) :
              /\ sent[f][1] = Min(63, Len(data) - (f - 1) * 63)
              /\ \A i \in 1..sent[f][1] : sent[f][i + 1] = data[(f - 1) * 63 + i]
        /\ pc = "write" => elapsed <= write_timeout
        /\ (pc = "idle" /\ result.kind = "WriteTimeout") =>
              Len(sent) >= 1 /\ elapsed > write_timeout
        /\ (pc = "idle" /\ result.kind # "WriteTimeout") =>
              elapsed <= write_timeout

\* C6 witness: with write_timeout zero the first of three chunks was sent,
\* then the check found the deadline passed and the other two stayed unsent.
C6_Witness ==
    /\ WriteReturned
    /\ write_timeout = 0
    /\ result.kind = "WriteTimeout"
    /\ Len(sent) = 1
    /\ Len(data) = 127

\* The destination bytes a read has written (the device's bytes are never
\* zero, the destination starts as zeros).
Written == {i \in 1..Len(data) : data[i] # 0}

\* C7: a read whose fetches did not fail returns Ok(n) with 0 <= n <= the
\* destination's length and n the number of bytes written to the destination,
\* which are its first n; one that failed returns the transport's error.  A
\* read that ran out of time having written nothing returns Ok(0).
C7_ReadResult ==
    ReadReturned =>
        /\ ~fetchFailed =>
              /\ result.kind = "Ok"
              /\ result.val \in 0..Len(data)
              /\ Written = 1..result.val
        /\ fetchFailed => result.kind = "HidError"
        /\ (~fetchFailed /\ elapsed > read_timeout /\ Written = {}) =>
              result = Ok(0)

\* C7 witness: a read into a destination with room ran out of time with
\* nothing received and returned Ok(0).
C7_Witness ==
    /\ ReadReturned
    /\ Len(data) > 0
    /\ callFrames = 0
    /\ elapsed > read_timeout
    /\ result = Ok(0)

\* The values of a sequence.
Range(seq) == {seq[i] : i \in 1..Len(seq)}

\* C8: after flush_fifos with rx = true the leftover buffer is empty, with
\* start and length zero; the read that follows delivers none of the bytes the
\* flush dropped, and returns 0 if no new frame arrives.
C8_FlushDiscards ==
    /\ (pc = "idle" /\ op = "flush_fifos" /\ arg.rx) =>
          rx_buffer.len = 0 /\ rx_buffer.start = 0
    /\ (op = "read" /\ afterFlush) =>
          /\ \A i \in Written : data[i] \notin Range(flushed)
          /\ callFrames = 0 => num_bytes_read = 0 /\ Written = {}
          /\ (pc = "idle" /\ callFrames = 0 /\ ~fetchFailed) => result = Ok(0)

\* C8 witness: a flush dropped unread bytes, and the read after it, with room
\* in its destination and no frame arriving, returned 0.
C8_Witness ==
    /\ ReadReturned
    /\ afterFlush
    /\ Len(flushed) > 0
    /\ Len(data) > 0
    /\ callFrames = 0
    /\ result = Ok(0)

\* C9: a get_config that is answered with the report a set_config wrote
\* returns the configuration that was set.
C9_ConfigRoundTrip ==
    (op = "get_config" /\ arg.echo) => result = Ok(arg.config)

\* C9 witness: a configuration with baud rate 0xFF00FF00 and the last variant
\* of every enum was read back.
C9_Witness ==
    /\ op = "get_config"
    /\ arg.echo
    /\ result.kind = "Ok"
    /\ result.val = UartConfig(U32(65280, 65280), "Bits8", "Space", "Long", "RtsCts")

\* C10: get_config of a fetched report fails with the crate's own error (kind
\* Msg: not the transport's error, not WriteTimeout) when the parity byte is
\* not in 0..4, the flow-control byte not in 0..1, the data-bits byte not in
\* 0..3 or the stop-bits byte not in 0..1, and succeeds otherwise.
C10_DecodeRejects ==
    (op = "get_config" /\ ~fetchFailed) =>
        LET known == /\ buf[6] \in 0..4
                     /\ buf[7] \in 0..1
                     /\ buf[8] \in 0..3
                     /\ buf[9] \in 0..1
        IN  /\ known => result.kind = "Ok"
            /\ ~known => result.kind = "Msg"
            /\ result.kind \notin {"HidError", "WriteTimeout"}

\* C10 witness: a report whose only unknown code is the stop-bits byte was
\* rejected.
C10_Witness ==
    /\ op = "get_config"
    /\ ~fetchFailed
    /\ buf[6] = 4
    /\ buf[7] = 1
    /\ buf[8] = 3
    /\ buf[9] = 255
    /\ result.kind = "Msg"

\* C11: is_enabled of a fetched report returns true when the status byte is
\* in 1..255 and false exactly when it is 0; enable and disable send a report
\* with byte 0 = 0x41 and byte 1 = 0x01 or 0x00, and is_enabled of the report
\* they sent returns the boolean that was encoded.
C11_EnableDecoding ==
    /\ (op = "is_enabled" /\ ~fetchFailed) =>
          /\ buf[2] \in 1..255 => result = Ok(TRUE)
          /\ result = Ok(FALSE) <=> buf[2] = 0
    /\ (pc = "idle" /\ op \in {"enable", "disable"}) =>
          /\ arg.enable = (op = "enable")
          /\ buf[1] = 65
          /\ buf[2] = IF arg.enable THEN 1 ELSE 0
          /\ \A i \in 3..Len(buf) : buf[i] = 0
    /\ (op = "is_enabled" /\ arg.echo) => result = Ok(arg.enable)

\* C11 witness: a report with status byte 0x02 was decoded as enabled.
C11_Witness ==
    /\ op = "is_enabled"
    /\ ~arg.echo
    /\ ~fetchFailed
    /\ buf[2] = 2
    /\ result = Ok(TRUE)

\* The reports write builds for the first n chunks of d.
FramesOf(d, n) == [i \in 1..n |-> DataFrame(Chunk(d, i - 1))]

\* C12: a transport error ends the call that met it.  When the send of chunk
\* i of a write has failed, write has returned the transport's error and has
\* sent the chunks before i and no other; when a fetch of a read has failed,
\* read has returned the transport's error.  A call that has returned takes
\* no further step, so nothing is sent or fetched after the failure and the
\* failed operation is not issued again.
C12_ErrorsSurface ==
    /\ fetchFailed => (pc = "idle" /\ result = Err("HidError", "transport"))
    /\ (fetchFailed /\ op = "write") =>
          /\ Len(sent) < NumChunks(data)
          /\ sent = FramesOf(data, Len(sent))
          /\ buf = DataFrame(Chunk(data, Len(sent)))
    /\ (fetchFailed /\ op = "read") =>
          /\ buf = Zeros(INTERRUPT_REPORT_LENGTH)
          /\ num_bytes_read < Len(data)
    /\ (pc = "write" => sent = FramesOf(data, Len(sent)))

\* C12 witness: the second of the three chunks of a write failed; the first
\* was sent, the third was not.
C12_Witness ==
    /\ WriteReturned
    /\ fetchFailed
    /\ NumChunks(data) = 3
    /\ Len(sent) = 1
    /\ buf[1] = 63
    /\ result.kind = "HidError"

\* C13: under ReadFairness (every fetch returns, the clock advances) every
\* read call returns, whatever the destination size, the read_timeout, the
\* leftover and the frames that arrive, zero-length frames and any run of
\* attempts at which nothing arrives included.
C13_ReadTerminates == (pc = "read") ~> ReadReturned

\* C13 witness: a read with the default timeout into a destination no frame
\* filled went through attempts at which nothing arrived and returned at the
\* deadline.
C13_Witness ==
    /\ ReadReturned
    /\ read_timeout = DefaultTimeout
    /\ Len(data) = 64
    /\ callFrames = 1
    /\ result = Ok(0)
    /\ elapsed > read_timeout

\* C14: a read that has returned while the elapsed time it measured last
\* does not exceed read_timeout has either failed on a fetch or filled its
\* destination completely (with or without excess bytes buffered): an attempt
\* at which nothing arrived, or a frame that left the destination partly
\* filled, ended the call only with the deadline passed.
C14_PollsUntilDeadline ==
    (ReadReturned /\ ~(elapsed > read_timeout)) =>
        \/ fetchFailed /\ result.kind = "HidError"
        \/ num_bytes_read = Len(data) /\ result = Ok(Len(data))

\* C14 witness: a read into 64 bytes took a frame of 63 bytes, which left it
\* partly filled after 600 ms of 1000, went on, and returned before the
\* deadline when a second frame filled it and left excess bytes buffered.
C14_Witness ==
    /\ ReadReturned
    /\ read_timeout = DefaultTimeout
    /\ elapsed = Tick
    /\ Len(data) = 64
    /\ callFrames = 2
    /\ result = Ok(64)
    /\ rx_buffer.len = 9

\* C15: a step of read that attempts a fetch (it fills buf, fails, measures
\* the time or takes a frame) starts with the leftover buffer empty, and so
\* does every step of read that changes the leftover buffer (RxBuffer::write);
\* a read whose destination the leftover filled returns the destination's
\* length by the break, without a fetch.
C15_FillOnlyWhenEmpty ==
    [][LET fetch == \/ buf' # buf
                    \/ elapsed' # elapsed
                    \/ fetchFailed' # fetchFailed
                    \/ nframes' # nframes
       IN  pc = "read" =>
               /\ fetch => rx_buffer.len = 0
               /\ rx_buffer' # rx_buffer => rx_buffer.len = 0
               /\ num_bytes_read = Len(data) =>
                     /\ ~fetch
                     /\ rx_buffer' = rx_buffer
                     /\ pc' = "idle"
                     /\ result' = Ok(Len(data))
      ]_vars

\* C15 witness: a read into 4 bytes was filled from a leftover of more than
\* 4 bytes and returned 4 without a fetch, the rest still buffered.
C15_Witness ==
    /\ ReadReturned
    /\ Len(data) = 4
    /\ result = Ok(4)
    /\ buf = <<>>
    /\ callFrames = 0
    /\ rx_buffer.start >= 4
    /\ rx_buffer.len > 0

\* C16: only read and flush_fifos with rx = true change the leftover buffer
\* (its start, its length, its bytes): every step of write, set_config,
\* get_config, enable, disable, is_enabled, set_read_timeout,
\* set_write_timeout and flush_fifos with rx = false leaves it as it was,
\* whether the call succeeds or fails.
C16_LeftoverFrame ==
    [][/\ rx_buffer' # rx_buffer =>
            (op' = "read" \/ (op' = "flush_fifos" /\ arg'.rx))
       /\ (op' \in {"write", "set_config", "get_config", "enable", "disable",
                     "is_enabled", "set_read_timeout", "set_write_timeout"}
            \/ (op' = "flush_fifos" /\ ~arg'.rx)) =>
            rx_buffer' = rx_buffer
      ]_vars

\* C16 witness: a flush_fifos with rx = false failed and the leftover buffer,
\* partly drained, still holds unread bytes.
C16_Witness ==
    /\ pc = "idle"
    /\ op = "flush_fifos"
    /\ ~arg.rx
    /\ arg.tx
    /\ fetchFailed
    /\ rx_buffer.start > 0
    /\ rx_buffer.len > 0

\* C17: with length bytes in 0..63 no slice read takes is out of range, of
\* the destination, of the 64-byte report or of the RxBuffer's 64 bytes
\* (read never panics), and RxBuffer::write is handed at most 62 bytes, so
\* that the leftover's length is at most 62 and start + len at most 64.
C17_NoOutOfBounds ==
    /\ pc # "panic"
    /\ rx_buffer.len <= INTERRUPT_REPORT_LENGTH - 2
    /\ rx_buffer.start + rx_buffer.len <= INTERRUPT_REPORT_LENGTH
    /\ Len(rx_buffer.data) = INTERRUPT_REPORT_LENGTH
    /\ (op = "read" => (Len(data) = arg.len /\ num_bytes_read <= Len(data)))

\* C17 witness: a read into one byte took a frame of 63 bytes and handed the
\* other 62 to RxBuffer::write.
C17_Witness ==
    /\ ReadReturned
    /\ Len(data) = 1
    /\ callFrames = 1
    /\ buf[1] = 63
    /\ result = Ok(1)
    /\ rx_buffer.start = 0
    /\ rx_buffer.len = 62

\* C18: a read that has returned Ok with unread bytes in the leftover buffer
\* has returned the length of its destination; a read that has returned Ok
\* with fewer bytes than its destination holds has left the leftover buffer
\* empty.
C18_LeftoverMeansFilled ==
    (ReadReturned /\ result.kind = "Ok") =>
        /\ rx_buffer.len > 0 => result.val = Len(data)
        /\ result.val < Len(data) => (rx_buffer.len = 0 /\ rx_buffer.start = 0)

\* C18 witness: a read into 64 bytes drained a leftover, took a frame of 63
\* bytes that filled it, and returned 64 with 5 bytes buffered.
C18_Witness ==
    /\ ReadReturned
    /\ Len(data) = 64
    /\ callFrames = 1
    /\ buf[1] = 63
    /\ result = Ok(64)
    /\ rx_buffer.len = 5

\* C19: when a read has returned the transport's error, the unread bytes of
\* the leftover buffer are those it held when the read was called.
C19_ErrorKeepsLeftover ==
    (ReadReturned /\ fetchFailed) => Unread(rx_buffer) = unreadAtCall

\* C20: when flush_fifos with rx = true has returned the transport's error,
\* because the purge report could not be sent, the leftover buffer is empty
\* all the same: it is cleared before the report is sent.
C20_FlushClearsOnError ==
    (pc = "idle" /\ op = "flush_fifos" /\ arg.rx /\ fetchFailed) =>
        /\ result.kind = "HidError"
        /\ buf = PurgeReport(TRUE, arg.tx)
        /\ rx_buffer.len = 0
        /\ rx_buffer.start = 0
        /\ Unread(rx_buffer) = <<>>

\* C20 witness: a flush_fifos with rx = true failed while unread bytes were
\* buffered, and the buffer is empty.
C20_Witness ==
    /\ pc = "idle"
    /\ op = "flush_fifos"
    /\ arg.rx
    /\ fetchFailed
    /\ result.kind = "HidError"
    /\ Len(flushed) > 0
    /\ rx_buffer.len = 0

====
